---- MODULE Spec2Model ----
(***************************************************************************)
(* Model of logging_utils/LogAdapter.go: the structured log adapter, its   *)
(* two sinks (console, rotating file), the process-wide cron scheduler     *)
(* `cr` that rotates the file, and Destruct.                               *)
(*                                                                         *)
(* The rotating writer (lumberjack.Logger) and the scheduler (cron.Cron)   *)
(* are libraries the adapter calls; they are modelled by the behaviour of  *)
(* the calls the adapter makes (Write, Rotate, Close; New, AddFunc, Start, *)
(* Stop).  Every lumberjack call runs under the Logger's own mutex, so one *)
(* call is one atomic step here.  cron runs each firing of a job in a      *)
(* goroutine of its own, so a firing (Fire) and the run of the job it      *)
(* started (RunJob) are two steps.                                         *)
(***************************************************************************)
EXTENDS Integers, Sequences, FiniteSets, TLC

\* ---------------------------------------------------------------- bounds
\* Spec (lifecycle)
MaxAdapters == 2        \* NewLogAdapter calls in one process
MaxCalls == 1           \* log calls, each made by a goroutine of its own
MaxFirings == 1         \* firings of the "@daily" schedules
\* SpecEmit (emission)
EmitCalls == 2          \* log calls, each made by a goroutine of its own
\* SpecRotate (rotation)
RotateCalls == 2        \* log calls, each made by a goroutine of its own
RotateFirings == 3      \* firings of the "@daily" schedule
\* SpecFilter (severity filter)
FilterCalls == 2        \* calls of a.log
\* SpecFormat (record format)
FormatCalls == 2        \* log calls
MaxMessageLen == 2      \* characters in a message body

\* ------------------------------------------------------- configuration
Levels == {"ERROR", "DEBUG", "WARN", "INFO"}

\* cfg.Level may hold any string; "TRACE" stands for a name not in the table.
ConfigLevels == Levels \cup {"TRACE"}

\* cfg.Directory: a writable directory of the adapter's own ("ok"), or a
\* path that cannot be created or written ("bad").
Directories == {"ok", "bad"}

\* cfg.MaxBackup values exercised: 0 (lumberjack: keep every backup) and 1.
MaxBackupValues == {0, 1}

\* config.LogConfig as NewLogAdapter receives it.  Directory and MaxBackup
\* are read only when File is set, so they are fixed for console-only
\* configurations.
Configs ==
    { c \in [Level : ConfigLevels, Console : BOOLEAN, File : BOOLEAN,
             Directory : Directories, MaxBackup : MaxBackupValues] :
        ~c.File => (c.Directory = "ok" /\ c.MaxBackup = 0) }

\* The configurations of the lifecycle specification Spec: the file sink on
\* or off, a good directory, one level, the console sink off.
LifecycleConfigs ==
    { c \in Configs : c.Level = "WARN" /\ ~c.Console /\ c.Directory = "ok"
                       /\ c.MaxBackup = 0 }

\* The configurations of the emission specification SpecEmit: every level,
\* sink setting and directory, with MaxBackup 0 (no rotation happens there).
EmitConfigs == { c \in Configs : c.MaxBackup = 0 }

\* The configurations of the rotation specification SpecRotate: the file
\* sink on a good directory, under every MaxBackup value.
RotateConfigs ==
    { c \in Configs : c.Level = "WARN" /\ ~c.Console /\ c.File
                       /\ c.Directory = "ok" }

\* The configurations of the filter specification SpecFilter: every
\* configured level, in the table or not, on a console-only adapter.
FilterConfigs == { c \in Configs : c.Console /\ ~c.File }

\* The level names a.log is called with there: the four of the table and
\* two that are not in it.
FilterLevels == Levels \cup {"TRACE", "FATAL"}

\* The configuration of the format specification SpecFormat: both sinks on,
\* a level that lets every method through.
FormatConfigs ==
    { c \in Configs : c.Level = "ERROR" /\ c.Console /\ c.File
                       /\ c.Directory = "ok" /\ c.MaxBackup = 0 }

\* The message bodies the callers pass there: the non-empty strings of at
\* most MaxMessageLen characters over the alphabet {a, |}.
Messages ==
    UNION { [1..n -> {"a", "|"}] : n \in 1..MaxMessageLen }

VARIABLES
    cfg,        \* cfg[a]: the LogConfig of adapter a (a.cfg); Len(cfg) adapters exist
    logger,     \* logger[a]: a.logger and the files of its directory
    cr,         \* the package variable cr: the adapter whose NewLogAdapter made it, 0 = nil
    cron,       \* cron[a]: the cron.Cron made by adapter a's NewLogAdapter
    jobs,       \* jobs[a]: job goroutines cron a started that have not run yet
    fired,      \* firings so far
    crashed,    \* the process has panicked
    console,    \* standard output, one entry per line
    cur,        \* cur[k]: the k-th log call made, running or returned
    dpc,        \* dpc[a]: position of the Destruct call running on adapter a
    destructed  \* destructed[a]: a Destruct call on adapter a has returned

vars == <<cfg, logger, cr, cron, jobs, fired, crashed, console, cur,
          dpc, destructed>>

\* The program state proper (what the code reads and writes), without the
\* bookkeeping of calls made (cur, fired, destructed, dpc).
progState == <<cfg, logger, cr, cron, jobs, crashed, console>>

AdapterIds == DOMAIN cfg

NL == "\n"

\* --------------------------------------------------- lumberjack.Logger
\* a.logger == nil, for an adapter whose initLogFile returned early.
NilLogger ==
    [nil |-> TRUE, file |-> FALSE, exists |-> FALSE, content |-> <<>>,
     backups |-> <<>>, mill |-> FALSE]

\* &lumberjack.Logger{...}: no file is opened or created by the literal.
\*   file    : l.file # nil (the handle is open)
\*   exists  : the active file Directory/go-base-template.log exists
\*   content : the bytes of the active file (fields, "|" and "\n" tokens)
\*   backups : the backup files, oldest first
\*   mill    : a pruning pass has been requested and has not run
NewLogger == [NilLogger EXCEPT !.nil = FALSE]

\* lumberjack openNew: rename an existing active file to a backup, then
\* create the active file empty and open it.
openNew(l) ==
    [l EXCEPT !.file = TRUE, !.exists = TRUE, !.content = <<>>,
              !.backups = IF l.exists THEN Append(l.backups, l.content)
                          ELSE l.backups]

\* lumberjack openExistingOrNew: open the active file for appending, or
\* create it; both request a pruning pass.
openExistingOrNew(l) ==
    IF l.exists THEN [l EXCEPT !.file = TRUE, !.mill = TRUE]
    ELSE [openNew(l) EXCEPT !.mill = TRUE]

\* a.logger.Write(p) that succeeds: open the file if no handle is open,
\* append p.
Write(l, p) ==
    LET o == IF l.file THEN l ELSE openExistingOrNew(l)
    IN  [o EXCEPT !.content = @ \o p]

\* Close that rotates the file before it releases the handle.
Close_rotating(l) == [openNew(l) EXCEPT !.file = FALSE, !.mill = TRUE]

\* a.logger.Close(): release the handle; a no-op on the file when none is open.
Close(l) == [l EXCEPT !.file = FALSE]

\* Rotate that starts the active file afresh without keeping a backup.
Rotate_truncate(l) ==
    [l EXCEPT !.file = TRUE, !.exists = TRUE, !.content = <<>>, !.mill = TRUE]

\* a.logger.Rotate() that succeeds: close, openNew, request pruning.
Rotate(l) == [openNew(l) EXCEPT !.mill = TRUE]

\* lumberjack millRunOnce with MaxBackups = maxBackup: keep the newest
\* maxBackup backups; 0 keeps them all.
millRunOnce(l, maxBackup) ==
    LET n == Len(l.backups)
        drop == IF maxBackup > 0 /\ n > maxBackup THEN n - maxBackup ELSE 0
    IN  [l EXCEPT !.mill = FALSE,
                  !.backups = SubSeq(l.backups, drop + 1, n)]

\* ------------------------------------------------------------- adapter
\* initLogFile without the early return for a disabled file sink.
initLogFile_always(c) == [err |-> FALSE, logger |-> NewLogger]

\* initLogFile: (error, a.logger).  It builds the Logger value and touches
\* no file, so it returns a nil error for every configuration.
initLogFile(c) ==
    IF ~c.File THEN [err |-> FALSE, logger |-> NilLogger]
    ELSE [err |-> FALSE, logger |-> NewLogger]

\* isLoggable with the comparison made strict.
isLoggable_strict(c, logLevel) ==
    LET l == [ERROR |-> 1, DEBUG |-> 2, WARN |-> 3, INFO |-> 4]
        r(n) == IF n \in DOMAIN l THEN l[n] ELSE 0
    IN  r(logLevel) > r(c.Level)

\* The level table of isLoggable; a name not in it reads as 0.
rank(level) ==
    LET l == [ERROR |-> 1, DEBUG |-> 2, WARN |-> 3, INFO |-> 4]
    IN  IF level \in DOMAIN l THEN l[level] ELSE 0

isLoggable(c, logLevel) == rank(logLevel) >= rank(c.Level)

\* appName / msName of adapter a (appCfg.AppName, appCfg.MsName).
appName(a) == "app" \o ToString(a)
msName(a) == "ms" \o ToString(a)

\* formatMessage: the Sprintf of line 136, as the sequence of its pieces.
\* goId is the caller's goroutine id, uuidV the fresh uuid.
formatMessage(a, logLevel, message, goId, uuidV) ==
    <<"now", "|", "[" \o ToString(goId) \o "]", "|", "host", "|", logLevel, "|",
      "application-log", "|", appName(a), "|", msName(a), "|", uuidV, "|">>
    \o message

\* uuid.NewV4() of the k-th log call: a value no other call gets.
NewV4(k) == "u" \o ToString(k)

\* The message body the callers pass.
Message == <<"msg">>

\* logToFile writing the record and its line terminator in two Write calls.
logToFileWrites_split(m) == << m, <<NL>> >>

\* logToFile, line 179: the byte slices it hands to a.logger.Write, in
\* order: one slice, message + "\n".
logToFileWrites(m) == << m \o <<NL>> >>

Init ==
    /\ cfg = <<>>
    /\ logger = <<>>
    /\ cr = 0
    /\ cron = <<>>
    /\ jobs = <<>>
    /\ fired = 0
    /\ crashed = FALSE
    /\ console = <<>>
    /\ cur = <<>>
    /\ dpc = <<>>
    /\ destructed = <<>>

\* NewLogAdapter replacing cr: it stops the schedulers made before.
cronNew_replacing(crons) ==
    Append([i \in DOMAIN crons |-> "stopped"], "running")

\* Lines 42-50, cr = cron.New(); AddFunc; Start: one more scheduler, running;
\* the schedulers made before are not touched.
cronNew(crons) == Append(crons, "running")

\* NewLogAdapter(cfg, appCfg).
NewLogAdapter(c) ==
    LET r == initLogFile(c)
        a == Len(cfg) + 1
    IN  /\ ~crashed
        /\ IF r.err
           THEN UNCHANGED vars                       \* return nil, err
           ELSE /\ cfg' = Append(cfg, c)
                /\ logger' = Append(logger, r.logger)
                /\ cron' = cronNew(cron)
                /\ cr' = a
                /\ jobs' = Append(jobs, 0)
                /\ dpc' = Append(dpc, "idle")
                /\ destructed' = Append(destructed, FALSE)
                /\ UNCHANGED <<fired, crashed, console, cur>>

\* a.log(logLevel, message) called on adapter a by a new goroutine:
\* isLoggable, formatMessage, logToConsole, and logToFile up to its Write
\* call.  cur keeps the call: a, level, the record m, the Write calls still
\* to make (pending), whether it has returned, whether a Write failed.
logMessage(a, logLevel, message) ==
    LET k == Len(cur) + 1
        m == formatMessage(a, logLevel, message, k, NewV4(k))
        ok == isLoggable(cfg[a], logLevel)
        writes == IF ok /\ cfg[a].File THEN logToFileWrites(m) ELSE <<>>
    IN  /\ ~crashed
        /\ a \in AdapterIds
        /\ console' = IF ok /\ cfg[a].Console THEN Append(console, m) ELSE console
        /\ cur' = Append(cur,
                     [a |-> a, level |-> logLevel, m |-> m, pending |-> writes,
                      returned |-> (writes = <<>>), werr |-> FALSE])
        /\ UNCHANGED <<cfg, logger, cr, cron, jobs, fired, crashed, dpc, destructed>>

\* a.log with the message body Message.
log(a, logLevel) == logMessage(a, logLevel, Message)

Error(a) == log(a, "ERROR")
Debug(a) == log(a, "DEBUG")
Info(a) == log(a, "INFO")
Warn(a) == log(a, "WARN")

\* logToFile panicking on a failed Write, as the rotation job does.
writeErrorPanics_panic == TRUE

\* What logToFile does with the error of a failed Write, lines 180-182: it
\* prints it and returns; it does not panic.
writeErrorPanics == FALSE

\* logToFile's a.logger.Write call of log call k and its error branch.  The
\* write fails whenever the directory is bad, and may fail on a good one
\* (disk full, a record over MaxSize); a failed write appends nothing and
\* the error is printed on standard output.
logToFile(k, fail) ==
    LET a == cur[k].a
        p == Head(cur[k].pending)
        rest == Tail(cur[k].pending)
    IN  /\ ~crashed
        /\ k \in DOMAIN cur
        /\ ~cur[k].returned
        /\ cfg[a].Directory = "bad" => fail
        /\ IF fail
           THEN /\ console' = Append(console, <<"err">>)
                /\ crashed' = writeErrorPanics
                /\ UNCHANGED logger
           ELSE /\ logger' = [logger EXCEPT ![a] = Write(@, p)]
                /\ UNCHANGED <<console, crashed>>
        /\ cur' = [cur EXCEPT ![k].pending = rest,
                              ![k].werr = @ \/ fail,
                              ![k].returned = (rest = <<>>) /\ ~crashed']
        /\ UNCHANGED <<cfg, cr, cron, jobs, fired, dpc, destructed>>

\* Destruct without its cfg.File test.
releasesResources_always(c) == TRUE

\* The test of Destruct, line 78: whether it closes the logger and stops cr.
releasesResources(c) == c.File

\* Destruct, first half: the cfg.File test and a.logger.Close().  Close on
\* a nil a.logger panics.  A Destruct that fails the test returns at once.
DestructClose(a) ==
    /\ ~crashed
    /\ a \in AdapterIds
    /\ dpc[a] = "idle"
    /\ IF releasesResources(cfg[a])
       THEN IF logger[a].nil
            THEN /\ crashed' = TRUE
                 /\ UNCHANGED <<logger, dpc, destructed>>
            ELSE /\ logger' = [logger EXCEPT ![a] = Close(@)]
                 /\ dpc' = [dpc EXCEPT ![a] = "stop"]
                 /\ UNCHANGED <<crashed, destructed>>
       ELSE /\ destructed' = [destructed EXCEPT ![a] = TRUE]
            /\ UNCHANGED <<logger, dpc, crashed>>
    /\ UNCHANGED <<cfg, cr, cron, jobs, fired, console, cur>>

\* cron.Stop(): a running scheduler stops firing; jobs already started keep
\* running.
Stop(c) == IF c = "running" THEN "stopped" ELSE c

\* Destruct, second half: cr.Stop() on the package variable, then return.
DestructStop(a) ==
    /\ ~crashed
    /\ a \in AdapterIds
    /\ dpc[a] = "stop"
    /\ cron' = [cron EXCEPT ![cr] = Stop(@)]
    /\ dpc' = [dpc EXCEPT ![a] = "idle"]
    /\ destructed' = [destructed EXCEPT ![a] = TRUE]
    /\ UNCHANGED <<cfg, logger, cr, jobs, fired, crashed, console, cur>>

\* The "@daily" schedule of cron c comes due: cron starts the job in a new
\* goroutine.
Fire(c) ==
    /\ ~crashed
    /\ c \in AdapterIds
    /\ cron[c] = "running"
    /\ fired' = fired + 1
    /\ jobs' = [jobs EXCEPT ![c] = @ + 1]
    /\ UNCHANGED <<cfg, logger, cr, cron, crashed, console, cur, dpc, destructed>>

\* The job printing the error of Rotate and carrying on.
rotateErrorPanics_print == FALSE

\* What the job does with an error of Rotate, lines 45-48: it prints it and
\* panics; cron.New() installs no recovery, so the process dies.
rotateErrorPanics == TRUE

\* The job of cron c (the closure over adapter c): a.logger.Rotate(), and
\* the panic when it returns an error.  A nil a.logger panics in Rotate.
\* Rotate fails whenever the directory is bad, and may fail on a good one.
RunJob(c, fail) ==
    /\ ~crashed
    /\ c \in AdapterIds
    /\ jobs[c] > 0
    /\ jobs' = [jobs EXCEPT ![c] = @ - 1]
    /\ (~logger[c].nil /\ cfg[c].Directory = "bad") => fail
    /\ IF logger[c].nil
       THEN /\ ~fail
            /\ crashed' = TRUE
            /\ UNCHANGED <<logger, console>>
       ELSE IF fail
            THEN /\ crashed' = rotateErrorPanics
                 /\ console' = Append(console, <<"err">>)
                 /\ UNCHANGED logger
            ELSE /\ logger' = [logger EXCEPT ![c] = Rotate(@)]
                 /\ UNCHANGED <<crashed, console>>
    /\ UNCHANGED <<cfg, cr, cron, fired, cur, dpc, destructed>>

\* lumberjack's pruning goroutine of adapter a's Logger runs a requested pass.
Mill(a) ==
    /\ ~crashed
    /\ a \in AdapterIds
    /\ logger[a].mill
    /\ logger' = [logger EXCEPT ![a] = millRunOnce(@, cfg[a].MaxBackup)]
    /\ UNCHANGED <<cfg, cr, cron, jobs, fired, crashed, console, cur, dpc, destructed>>

\* The lifecycle specification: adapters, callers, the schedulers and
\* Destruct, all interleaved, on good directories.
Next ==
    \/ \E c \in LifecycleConfigs : Len(cfg) < MaxAdapters /\ NewLogAdapter(c)
    \/ \E a \in 1..MaxAdapters : Len(cur) < MaxCalls /\ Warn(a)
    \/ \E k \in 1..MaxCalls : logToFile(k, FALSE)
    \/ \E a \in 1..MaxAdapters : DestructClose(a)
    \/ \E a \in 1..MaxAdapters : DestructStop(a)
    \/ \E c \in 1..MaxAdapters : fired < MaxFirings /\ Fire(c)
    \/ \E c \in 1..MaxAdapters : RunJob(c, FALSE)

Spec == Init /\ [][Next]_vars

\* The emission specification: one adapter under every level and sink
\* setting, concurrent callers, and writes that may fail on any directory.
NextEmit ==
    \/ \E c \in EmitConfigs : cfg = <<>> /\ NewLogAdapter(c)
    \/ Len(cur) < EmitCalls /\ Error(1)
    \/ Len(cur) < EmitCalls /\ Debug(1)
    \/ Len(cur) < EmitCalls /\ Info(1)
    \/ Len(cur) < EmitCalls /\ Warn(1)
    \/ \E k \in 1..EmitCalls, fail \in BOOLEAN : logToFile(k, fail)

SpecEmit == Init /\ [][NextEmit]_vars

\* The rotation specification: one file-enabled adapter, concurrent
\* callers, the scheduler firing, rotations that may fail, the pruning
\* goroutine and Destruct.
NextRotate ==
    \/ \E c \in RotateConfigs : cfg = <<>> /\ NewLogAdapter(c)
    \/ Len(cur) < RotateCalls /\ Warn(1)
    \/ \E k \in 1..RotateCalls : logToFile(k, FALSE)
    \/ fired < RotateFirings /\ Fire(1)
    \/ \E fail \in BOOLEAN : RunJob(1, fail)
    \/ Mill(1)
    \/ DestructClose(1)
    \/ DestructStop(1)

SpecRotate == Init /\ [][NextRotate]_vars

\* The filter specification: adapters under every configured level, and
\* a.log called with every level name, in the table or not.
NextFilter ==
    \/ \E c \in FilterConfigs : Len(cfg) < MaxAdapters /\ NewLogAdapter(c)
    \/ \E a \in 1..MaxAdapters, L \in FilterLevels :
          Len(cur) < FilterCalls /\ log(a, L)

SpecFilter == Init /\ [][NextFilter]_vars

\* The format specification: one adapter, the four methods called with
\* every message body of Messages.
NextFormat ==
    \/ \E c \in FormatConfigs : cfg = <<>> /\ NewLogAdapter(c)
    \/ \E msg \in Messages : Len(cur) < FormatCalls /\ logMessage(1, "ERROR", msg)
    \/ \E msg \in Messages : Len(cur) < FormatCalls /\ logMessage(1, "DEBUG", msg)
    \/ \E msg \in Messages : Len(cur) < FormatCalls /\ logMessage(1, "INFO", msg)
    \/ \E msg \in Messages : Len(cur) < FormatCalls /\ logMessage(1, "WARN", msg)
    \/ \E k \in 1..FormatCalls : logToFile(k, FALSE)

SpecFormat == Init /\ [][NextFormat]_vars

\* ------------------------------------------------- reading the sinks
\* The lines of a file: the pieces between "\n" tokens, and what follows
\* the last "\n" (rest, a line not terminated).
RECURSIVE splitLines(_, _, _)
splitLines(s, acc, line) ==
    IF s = <<>> THEN [lines |-> acc, rest |-> line]
    ELSE IF Head(s) = NL THEN splitLines(Tail(s), Append(acc, line), <<>>)
    ELSE splitLines(Tail(s), acc, Append(line, Head(s)))

Lines(content) == splitLines(content, <<>>, <<>>)

\* How many entries of the sequence q equal x.
Count(q, x) == Cardinality({i \in DOMAIN q : q[i] = x})

\* The records the console sink has received.
ConsoleCount(m) == Count(console, m)

\* The complete lines of adapter a's active file equal to record m.
ActiveCount(a, m) == Count(Lines(logger[a].content).lines, m)

\* The same over the backup files of adapter a.
RECURSIVE BackupCount(_, _, _)
BackupCount(a, m, i) ==
    IF i = 0 THEN 0
    ELSE Count(Lines(logger[a].backups[i]).lines, m) + BackupCount(a, m, i - 1)

FileCount(a, m) == ActiveCount(a, m) + BackupCount(a, m, Len(logger[a].backups))

Returned == {k \in DOMAIN cur : cur[k].returned}

\* rank(L) >= rank(configured minimum), for log call k.
AtOrAbove(k) == rank(cur[k].level) >= rank(cfg[cur[k].a].Level)

\* ------------------------------------------------------------ claims

\* C1: for every configured minimum level and every log method with level
\* L, a call that has returned has put exactly one record on each enabled
\* sink and none on a disabled sink when rank(L) >= rank(minimum), and no
\* record on either sink when rank(L) < rank(minimum).  The file count is
\* that of a call whose Write did not fail; a failed Write leaves nothing.
C1_EmitsOncePerEnabledSink ==
    \A k \in Returned :
        LET c == cfg[cur[k].a]
            m == cur[k].m
        IN  /\ ConsoleCount(m) = IF AtOrAbove(k) /\ c.Console THEN 1 ELSE 0
            /\ FileCount(cur[k].a, m) =
                   IF AtOrAbove(k) /\ c.File /\ ~cur[k].werr THEN 1 ELSE 0

\* C1 witness: under one adapter with both sinks on, a call at the minimum
\* level has returned with its record once on each sink, and a call below
\* the minimum has returned with no record anywhere.
C1_Witness ==
    \E k, j \in Returned :
        /\ cfg[cur[k].a].Console /\ cfg[cur[k].a].File
        /\ cur[k].level = cfg[cur[k].a].Level
        /\ ~cur[k].werr
        /\ ConsoleCount(cur[k].m) = 1 /\ FileCount(cur[k].a, cur[k].m) = 1
        /\ ~AtOrAbove(j)
        /\ ConsoleCount(cur[j].m) = 0 /\ FileCount(cur[j].a, cur[j].m) = 0

\* C4: when every one of the concurrent log calls made on a file-enabled
\* adapter was loggable and has returned without a write failure (and no
\* rotation ran), the file holds exactly one line per call, each line the
\* complete record of one call, and nothing after the last line terminator.
C4_ConcurrentWritesWholeLines ==
    \A a \in AdapterIds :
        (/\ cfg[a].File
         /\ \A k \in DOMAIN cur :
               cur[k].a = a /\ cur[k].returned /\ AtOrAbove(k) /\ ~cur[k].werr)
        => LET f == Lines(logger[a].content)
           IN  /\ f.rest = <<>>
               /\ Len(f.lines) = Len(cur)
               /\ \A k \in DOMAIN cur : Count(f.lines, cur[k].m) = 1

\* C4 witness: EmitCalls calls, all loggable, all returned, none failed, on
\* a file-enabled adapter whose file has that many lines.
C4_Witness ==
    /\ Len(cur) = EmitCalls
    /\ cfg # <<>> /\ cfg[1].File
    /\ \A k \in DOMAIN cur : cur[k].returned /\ AtOrAbove(k) /\ ~cur[k].werr
    /\ Len(Lines(logger[1].content).lines) = EmitCalls

\* C6: a create call whose file sink is enabled on a directory that cannot
\* be used returns an error and no adapter: no adapter with such a
\* configuration exists, and so no rotation job or scheduler made for it.
C6_InitFailureReturnsError ==
    \A a \in AdapterIds : ~(cfg[a].File /\ cfg[a].Directory = "bad")

\* C7: a log call whose file write failed has returned (no panic), its
\* record is on the console exactly once if the console sink is enabled
\* (and not at all otherwise), and a later call on the adapter whose write
\* succeeds has its record in the file.
C7_WriteFailureNotFatal ==
    \A k \in DOMAIN cur :
        cur[k].werr =>
            /\ cur[k].returned
            /\ ~crashed
            /\ ConsoleCount(cur[k].m) = IF cfg[cur[k].a].Console THEN 1 ELSE 0
            /\ \A j \in Returned :
                  (j > k /\ cur[j].a = cur[k].a /\ AtOrAbove(j) /\ ~cur[j].werr)
                  => FileCount(cur[j].a, cur[j].m) = 1

\* C7 witness: a call's write failed with the console sink on, and a later
\* call on the same adapter wrote its record to the file.
C7_Witness ==
    \E k, j \in Returned :
        /\ cur[k].werr /\ cfg[cur[k].a].Console
        /\ ConsoleCount(cur[k].m) = 1
        /\ j > k /\ ~cur[j].werr /\ FileCount(cur[j].a, cur[j].m) = 1

\* A Destruct call on adapter a has closed the handle, and nothing has
\* opened it since.
ClosedByShutdown(a) == ~logger[a].file /\ (dpc[a] = "stop" \/ destructed[a])

\* This step is a rotation by the job of cron a that succeeded.
RotationStep(a) == jobs'[a] < jobs[a] /\ ~crashed'

\* This step is a firing of cron a.
FiringStep(a) == jobs'[a] > jobs[a]

\* C2: once a Destruct call has returned on a file-enabled adapter, the
\* cron made by that adapter's create call fires no more, whatever create
\* calls came before the Destruct.
C2_ShutdownStopsOwnRotation ==
    [][\A a \in AdapterIds : (cfg[a].File /\ destructed[a]) => ~FiringStep(a)]_vars

\* C3: no rotation by the scheduler runs on a handle that a Destruct call
\* has closed (Destruct stops the scheduler before it closes the handle).
C3_NoRotationOnClosedHandle ==
    [][\A a \in AdapterIds : RotationStep(a) => ~ClosedByShutdown(a)]_vars

\* C8: an adapter created with File false has no open handle, no active log
\* file and no backup file, in every reachable state.
C8_NoFileWhenDisabled ==
    \A a \in AdapterIds :
        ~cfg[a].File =>
            /\ ~logger[a].file
            /\ ~logger[a].exists
            /\ logger[a].backups = <<>>

\* C8 witness: a console-only adapter after a log call on it has returned,
\* Destruct has returned on it and the job of its cron has run (every other
\* adapter being file-enabled, the crash is that job's).
C8_Witness ==
    \E a \in AdapterIds :
        /\ ~cfg[a].File
        /\ destructed[a]
        /\ \E k \in Returned : cur[k].a = a
        /\ fired > 0 /\ jobs[a] = 0 /\ crashed
        /\ \A b \in AdapterIds \ {a} : cfg[b].File

\* C9: a Destruct call on a console-only adapter returns in one step and
\* leaves the program state as it was: configuration, loggers and files,
\* cr, every cron's running or stopped status, jobs, console, no panic.
C9_DestructNoOpWhenConsoleOnly ==
    [][\A a \in AdapterIds :
          (~cfg[a].File /\ DestructClose(a)) =>
              /\ progState' = progState
              /\ dpc' = dpc
              /\ destructed'[a]
      ]_vars

\* C9 witness: Destruct has returned on a console-only adapter while cr,
\* the process-wide scheduler, is still running (and the adapter has no
\* handle).
C9_Witness ==
    \E a \in AdapterIds :
        /\ ~cfg[a].File
        /\ destructed[a]
        /\ logger[a].nil
        /\ cron[cr] = "running"
        /\ ~crashed

\* Every line of the file f is the complete record of a log call made, and
\* nothing follows the last line terminator.
WholeLines(f) ==
    LET s == Lines(f)
    IN  /\ s.rest = <<>>
        /\ \A i \in DOMAIN s.lines : \E k \in DOMAIN cur : s.lines[i] = cur[k].m

\* C5: the rotation job rotates the Logger the log calls write to, one call
\* at a time: once the log calls made have returned, the active file and
\* every backup consist of complete records, and each record is in exactly
\* one of them (in at most one where pruning deletes backups).
C5_RecordWhollyInOneFile ==
    \A a \in AdapterIds :
        (cfg[a].File /\ \A k \in DOMAIN cur : cur[k].returned) =>
            /\ WholeLines(logger[a].content)
            /\ \A i \in DOMAIN logger[a].backups : WholeLines(logger[a].backups[i])
            /\ \A k \in DOMAIN cur :
                  (cur[k].a = a /\ AtOrAbove(k) /\ ~cur[k].werr) =>
                      /\ FileCount(a, cur[k].m) <= 1
                      /\ cfg[a].MaxBackup = 0 => FileCount(a, cur[k].m) = 1

\* C5 witness: a rotation ran between two writes: one record is in a backup
\* (the file before the rotation), another in the active file.
C5_Witness ==
    \E k, j \in Returned :
        /\ k # j
        /\ BackupCount(cur[k].a, cur[k].m, Len(logger[cur[k].a].backups)) = 1
        /\ ActiveCount(cur[j].a, cur[j].m) = 1

\* This step is a Write call of log call k that succeeded.
WriteStep(k) ==
    /\ ~cur[k].returned
    /\ Len(cur'[k].pending) < Len(cur[k].pending)
    /\ cur'[k].werr = cur[k].werr

\* What a rotation and a write do to the files, common to C10 as claimed and
\* as amended: a rotation leaves an open, empty active file and moves the
\* content it found into a new backup; a write appends to the active file.
C10_Step(a) ==
    /\ RotationStep(a) =>
          /\ logger'[a].file /\ logger'[a].exists
          /\ logger'[a].content = <<>>
          /\ logger[a].exists =>
                logger'[a].backups = Append(logger[a].backups, logger[a].content)
    /\ \A k \in DOMAIN cur :
          (cur[k].a = a /\ WriteStep(k)) =>
              /\ logger'[a].content = logger[a].content \o Head(cur[k].pending)
              /\ logger'[a].backups = logger[a].backups

Emitted(k) == ConsoleCount(cur[k].m) = 1

\* The level name of log call k is not in the table.
UnknownLevel(k) == rank(cur[k].level) = 0

\* C11 as claimed: a level name that is not in the table is treated the
\* same way under every configured minimum, in the table or not: any two
\* calls with such a level are both emitted or both suppressed.
C11_Original ==
    \A k, j \in Returned :
        (UnknownLevel(k) /\ UnknownLevel(j)) => (Emitted(k) <=> Emitted(j))

\* C11 as amended: a call with a level name that is not in the table is
\* suppressed under every configured minimum that is in the table, and
\* emitted under every configured minimum that is not.
C11_UnknownLevelFollowsMinimum ==
    \A k \in Returned :
        UnknownLevel(k) => (Emitted(k) <=> rank(cfg[cur[k].a].Level) = 0)

\* C11 witness: two calls with a level that is not in the table have
\* returned, one suppressed under a minimum of the table, one emitted under
\* a minimum that is not in it.
C11_Witness ==
    \E k, j \in Returned :
        /\ UnknownLevel(k) /\ UnknownLevel(j)
        /\ rank(cfg[cur[k].a].Level) > 0 /\ ~Emitted(k)
        /\ rank(cfg[cur[j].a].Level) = 0 /\ Emitted(j)

\* The handle and scheduler state an uninterrupted Destruct on adapter a
\* leaves: a's handle released, the scheduler under cr not running.
LeftByDestruct(a) ==
    /\ cfg[a].File => ~logger[a].file
    /\ cfg[a].File => cron[cr] # "running"

\* The step of a Destruct on a file-enabled adapter a that makes its Close,
\* and the step that makes its cr.Stop() and returns.
CloseStep(a) == dpc[a] = "idle" /\ dpc'[a] = "stop"
StopStep(a) == dpc[a] = "stop" /\ dpc'[a] = "idle"

\* C12: Destruct is idempotent.  The first call leaves a file-enabled
\* adapter's handle released and the scheduler under cr stopped; each half of
\* a further Destruct on the same adapter, run on the state the call before
\* it left, does not fail and changes neither the loggers (handles and
\* files) nor the schedulers.  On a console-only adapter a further call
\* changes nothing either.
C12_DestructIdempotent ==
    [][\A a \in AdapterIds :
        /\ CloseStep(a) => ~logger'[a].file
        /\ StopStep(a) => cron'[cr] # "running"
        /\ (destructed[a] /\ LeftByDestruct(a) /\ (CloseStep(a) \/ StopStep(a)))
           => (logger' = logger /\ cron' = cron /\ ~crashed')
        /\ (destructed[a] /\ ~cfg[a].File /\ DestructClose(a))
           => (logger' = logger /\ cron' = cron /\ ~crashed')]_vars

\* C12 witness: a second Destruct on a file-enabled adapter has made its
\* Close on the state the first call left, and that state is unchanged:
\* handle released, scheduler stopped, process alive.
C12_Witness ==
    \E a \in AdapterIds :
        /\ cfg[a].File /\ destructed[a] /\ dpc[a] = "stop"
        /\ LeftByDestruct(a) /\ ~crashed

\* The fields of a record, as a reader that splits it on "|" gets them.
RECURSIVE splitFields(_, _, _)
splitFields(m, i, field) ==
    IF i > Len(m) THEN <<field>>
    ELSE IF m[i] = "|" THEN <<field>> \o splitFields(m, i + 1, <<>>)
    ELSE splitFields(m, i + 1, Append(field, m[i]))

Fields(m) == splitFields(m, 1, <<>>)

\* C13: for every level and every non-empty message body (over an
\* alphabet that has the "|" character), the record of a log call splits on
\* "|" into exactly nine fields, in the order timestamp, [context id],
\* hostname, level, logger name, application name, microservice name,
\* request id, message.
C13_RecordHasNineFields ==
    \A k \in DOMAIN cur :
        LET f == Fields(cur[k].m)
            a == cur[k].a
        IN  /\ Len(f) = 9
            /\ f[1] = <<"now">>
            /\ f[2] = <<"[" \o ToString(k) \o "]">>
            /\ f[3] = <<"host">>
            /\ f[4] = <<cur[k].level>>
            /\ f[5] = <<"application-log">>
            /\ f[6] = <<appName(a)>>
            /\ f[7] = <<msName(a)>>
            /\ f[8] = <<NewV4(k)>>
            /\ f[9] \in Messages

\* The schedulers that are running.
RunningCrons == { a \in AdapterIds : cron[a] = "running" }

\* C14 as claimed: at most one rotation scheduler is running in the
\* process in every state, and once a later adapter has been created the
\* job of an earlier adapter no longer fires.
C14_Original ==
    [][/\ Cardinality({ a \in DOMAIN cron' : cron'[a] = "running" }) <= 1
       /\ \A a \in AdapterIds : a < Len(cfg) => ~FiringStep(a)]_vars

\* C14 as amended: creating an adapter makes cr refer to the new
\* adapter's scheduler and leaves every scheduler made before as it was,
\* running ones running with their jobs registered; Destruct can stop only
\* the scheduler cr refers to, so an earlier adapter's scheduler that was
\* running when a later adapter was created runs (and can fire) ever after.
C14_CreateClobbersOnlyTheReference ==
    [][/\ cr' = Len(cfg')
       /\ \A a \in AdapterIds :
            /\ Len(cfg') > Len(cfg) => (cron'[a] = cron[a] /\ jobs'[a] = jobs[a])
            /\ cron'[a] # cron[a] => a = cr
            /\ (a < Len(cfg) /\ cron[a] = "running") => cron'[a] = "running"]_vars

\* C14 witness: a second adapter has been created, cr refers to its
\* scheduler, both schedulers are running, and a firing of the first
\* adapter's scheduler has started its job.
C14_Witness ==
    /\ Len(cfg) = 2 /\ cr = 2
    /\ RunningCrons = {1, 2}
    /\ cfg[1].File /\ jobs[1] > 0

\* C15: each adapter owns its rotation job.  With several adapters
\* alive, the cr.Stop() of Destruct on a file-enabled adapter leaves that
\* adapter's own scheduler stopped and every other adapter's scheduler as it
\* was, whichever was created first.
C15_DestructStopsOnlyOwnJob ==
    [][\A a \in AdapterIds :
        (DestructStop(a) /\ cfg[a].File)
        => /\ cron'[a] = "stopped"
           /\ \A b \in AdapterIds \ {a} : cron'[b] = cron[b]]_vars

\* C17: a firing never calls Rotate on an absent logger.  The job of an
\* adapter created with File = false, when it runs, leaves the process alive.
C17_NoRotateOnAbsentLogger ==
    [][\A a \in AdapterIds :
        (~cfg[a].File /\ jobs'[a] < jobs[a]) => ~crashed']_vars

\* C18: once Destruct has returned on a file-enabled adapter with its
\* handle released, the handle stays released: no later step (a log call's
\* write, a late run of the rotation job) opens the file or changes it.
C18_HandleStaysReleased ==
    [][\A a \in AdapterIds :
        (cfg[a].File /\ destructed[a] /\ ~logger[a].file)
        => /\ ~logger'[a].file
           /\ logger'[a].content = logger[a].content
           /\ logger'[a].backups = logger[a].backups]_vars

\* C16: a rotation job whose Rotate returns an error aborts the process:
\* the step leaves the process crashed, and from a crashed state no step
\* changes anything, so no log call, firing or Destruct takes effect.
C16_RotateErrorAborts ==
    [][/\ \A a \in AdapterIds : RunJob(a, TRUE) => crashed'
       /\ crashed => UNCHANGED vars]_vars

\* C16 witness: the process has crashed in a rotation job that printed
\* the error of Rotate, with a log call's write and a started job left
\* undone.
C16_Witness ==
    /\ crashed
    /\ \E i \in DOMAIN console : console[i] = <<"err">>
    /\ \E k \in DOMAIN cur : ~cur[k].returned
    /\ \E a \in AdapterIds : jobs[a] > 0
====
